---------------------------- MODULE Spec2Model ----------------------------
(***************************************************************************)
(* A model of SkPathRef (include/core/SkPathRef.h): the reference-counted  *)
(* storage of a path's verbs, points and conic weights, its Editor, its    *)
(* generation ID and its cached bounds.                                    *)
(*                                                                         *)
(* Storages are slots 1..NumStorages; 0 stands for NULL.  A handle is an   *)
(* SkAutoTUnref<SkPathRef>, an editor slot is an SkPathRef::Editor.  The   *)
(* verbs of a storage are kept in logical order (verbs()[~i] is verbs[i+1])*)
(* and fPoints is split into buf (fPoints != NULL), size (fVerbs - fPoints)*)
(* and the point values.  A scalar is 0..MaxCoord or Inf (a non-finite     *)
(* float); arithmetic saturates to Inf above MaxCoord.                     *)
(***************************************************************************)
EXTENDS Integers, Sequences, FiniteSets, TLC

\* ------------------------------------------------------------------ bounds
NumStorages == 3
NumHandles == 2
NumEditors == 2
MaxVerbs == 1
MaxPoints == 1
MaxConics == 1
MaxCoord == 1
MaxGenID == 3
MaxBytes == 700
GenIDWidth == 4

\* ------------------------------------------------------- program constants
SizeofSkPoint == 8
SizeofVerb == 1
kMinSize == 256
kEmptyGenID == 1

Storages == 1..NumStorages
Handles == 1..NumHandles
Editors == 1..NumEditors
NULL == 0

\* --------------------------------------------------------------- scalars
Inf == MaxCoord + 1
Scalars == 0..Inf
ScalarIsFinite(v) == v # Inf

Sat(v) == IF v > MaxCoord THEN Inf ELSE v

Min2(a, b) == IF a <= b THEN a ELSE b
Max2(a, b) == IF a >= b THEN a ELSE b

\* ---------------------------------------------------------------- points
PointIsFinite(p) == ScalarIsFinite(p[1]) /\ ScalarIsFinite(p[2])

\* ----------------------------------------------------------------- rects
Rect(l, t, r, b) == [fLeft |-> l, fTop |-> t, fRight |-> r, fBottom |-> b]

EmptyRect == Rect(0, 0, 0, 0)

RectIsFinite(rc) ==
    /\ ScalarIsFinite(rc.fLeft) /\ ScalarIsFinite(rc.fTop)
    /\ ScalarIsFinite(rc.fRight) /\ ScalarIsFinite(rc.fBottom)

RectIsEmpty(rc) == rc.fLeft >= rc.fRight \/ rc.fTop >= rc.fBottom

RectIsSorted(rc) == rc.fLeft <= rc.fRight /\ rc.fTop <= rc.fBottom

RectContains(rc, p) ==
    /\ p[1] >= rc.fLeft /\ p[1] <= rc.fRight
    /\ p[2] >= rc.fTop /\ p[2] <= rc.fBottom

RECURSIVE SeqMin(_, _, _), SeqMax(_, _, _)
SeqMin(ps, k, c) ==
    IF k = 1 THEN ps[1][c] ELSE Min2(ps[k][c], SeqMin(ps, k - 1, c))
SeqMax(ps, k, c) ==
    IF k = 1 THEN ps[1][c] ELSE Max2(ps[k][c], SeqMax(ps, k - 1, c))

AllFinite(ps) == \A i \in 1..Len(ps) : PointIsFinite(ps[i])

\* SkRect::setBoundsCheck: the tight bounds of the points, or the empty
\* rectangle and false when a coordinate is not finite.
SetBoundsCheck(ps) ==
    IF Len(ps) = 0 THEN [rect |-> EmptyRect, finite |-> TRUE]
    ELSE IF ~AllFinite(ps) THEN [rect |-> EmptyRect, finite |-> FALSE]
    ELSE [rect |-> Rect(SeqMin(ps, Len(ps), 1), SeqMin(ps, Len(ps), 2),
                        SeqMax(ps, Len(ps), 1), SeqMax(ps, Len(ps), 2)),
          finite |-> TRUE]

\* -------------------------------------------------------------- matrices
Matrices == {"identity", "scale", "skew"}

\* A matrix never taken for the identity.
NeverIdentity(m) == FALSE

IsIdentity(m) == m = "identity"

RectStaysRect(m) == m \in {"identity", "scale", "flip"}

\* scale: (x, y) -> (2x, 2y);  skew: (x, y) -> (x + y, x + y);
\* flip: (x, y) -> (MaxCoord - x, MaxCoord - y)
MapPoint(m, p) ==
    IF m = "flip" THEN
        <<IF ScalarIsFinite(p[1]) THEN MaxCoord - p[1] ELSE Inf,
          IF ScalarIsFinite(p[2]) THEN MaxCoord - p[2] ELSE Inf>>
    ELSE IF m = "scale" THEN
        <<IF ScalarIsFinite(p[1]) THEN Sat(2 * p[1]) ELSE Inf,
          IF ScalarIsFinite(p[2]) THEN Sat(2 * p[2]) ELSE Inf>>
    ELSE IF m = "skew" THEN
        <<IF PointIsFinite(p) THEN Sat(p[1] + p[2]) ELSE Inf,
          IF PointIsFinite(p) THEN Sat(p[1] + p[2]) ELSE Inf>>
    ELSE p

MapPoints(m, ps) == [i \in 1..Len(ps) |-> MapPoint(m, ps[i])]

\* SkMatrix::mapRect for a matrix that keeps rectangles: the corners are
\* mapped and the result is sorted.
MapRect(m, rc) ==
    LET a == MapPoint(m, <<rc.fLeft, rc.fTop>>)
        b == MapPoint(m, <<rc.fRight, rc.fBottom>>)
    IN Rect(Min2(a[1], b[1]), Min2(a[2], b[2]), Max2(a[1], b[1]), Max2(a[2], b[2]))


\* ------------------------------------------------------ a storage's fields
\* SkPathRef::SkPathRef().  fBounds and fIsFinite are not initialised by the
\* constructor and are dead while fBoundsIsDirty: nothing reads them before
\* computeBounds, setBounds, copy or the transform writes them, so they are
\* kept at one fixed value while dirty.
NewPathRef ==
    [live |-> TRUE, fRefCnt |-> 1,
     buf |-> FALSE, size |-> 0, fFreeSpace |-> 0,
     fVerbCnt |-> 0, fPointCnt |-> 0,
     verbs |-> <<>>, points |-> <<>>, fConicWeights |-> <<>>,
     fBounds |-> EmptyRect, fBoundsIsDirty |-> TRUE, fIsFinite |-> FALSE,
     fGenerationID |-> kEmptyGenID, fEditorsAttached |-> 0]

\* A slot that holds no object (never constructed, or destroyed).
DeadRef == [NewPathRef EXCEPT !.live = FALSE, !.fRefCnt = 0, !.fGenerationID = 0]

currSize(r) == r.size

MarkBoundsDirty(r) ==
    [r EXCEPT !.fBoundsIsDirty = TRUE, !.fBounds = EmptyRect, !.fIsFinite = FALSE]

\* SkPathRef::validate(): the assertions of every build, then those of SK_DEBUG.
ValidateSizes(r) ==
    /\ r.fFreeSpace >= 0
    /\ currSize(r) >= 0
    /\ ~(~r.buf /\ r.fFreeSpace # 0)
    /\ ~(~r.buf /\ r.fPointCnt # 0)
    /\ ~(~r.buf /\ r.fVerbCnt # 0)
    /\ currSize(r) = r.fFreeSpace + SizeofSkPoint * r.fPointCnt + SizeofVerb * r.fVerbCnt

ValidateBounds(r) ==
    (~r.fBoundsIsDirty /\ ~RectIsEmpty(r.fBounds)) =>
        /\ \A i \in 1..r.fPointCnt : RectContains(r.fBounds, r.points[i])
        /\ r.fIsFinite = AllFinite(r.points)

validate(r) == ValidateSizes(r) /\ ValidateBounds(r)

\* --------------------------------------------------- uninitialised memory
VerbVals == 0..1
ConicVals == {1}
PointVals == {<<0, 0>>, <<1, 1>>}

SeqsOfLen(S, n) == [1..n -> S]

\* What a freshly sized region may hold: any values.
Mem(S, n) == SeqsOfLen(S, n)

Fill(S, n) == [i \in 1..n |-> CHOOSE x \in S : TRUE]

\* The first n elements of old, the rest from mem.
Keep(old, mem, n, keep) ==
    [i \in 1..n |-> IF keep /\ i <= Len(old) THEN old[i] ELSE mem[i]]

\* ---------------------------------------------------------- makeSpace
RoundUp8(n) == ((n + 7) \div 8) * 8

\* The allocation, byte by byte.  Point i (from 0) starts at PointOffset(i);
\* fVerbs is the end of the allocation and verbs()[~i], logical verb i, is the
\* byte at VerbOffset(size, i).
PointOffset(i) == SizeofSkPoint * i
VerbOffset(size, i) == size - SizeofVerb * (i + 1)

\* The bytes of r's allocation that hold its points and its verbs.
Image(r) ==
    LET P == {PointOffset(i) : i \in 0..(r.fPointCnt - 1)}
        V == {VerbOffset(currSize(r), i) : i \in 0..(r.fVerbCnt - 1)}
    IN [o \in P \cup V |->
           IF o \in V THEN r.verbs[(currSize(r) - o) \div SizeofVerb]
                      ELSE r.points[(o \div SizeofSkPoint) + 1]]

\* What is read at a byte nothing was written to.
ReadVerb(mem, o) == IF o \in DOMAIN mem THEN mem[o] ELSE -1
ReadPoint(mem, o) == IF o \in DOMAIN mem THEN mem[o] ELSE <<-1, -1>>

\* makeSpace that does not move the verbs after sk_realloc_throw.
verbsLeftBehind(mem, oldSize, newSize, verbCnt) == mem

\* sk_realloc_throw keeps the bytes below oldSize where they are; memmove then
\* copies the verbCnt verb bytes from the old end to the new end.
verbsMoved(mem, oldSize, newSize, verbCnt) ==
    LET dst == {newSize - k : k \in 1..(verbCnt * SizeofVerb)}
    IN [o \in (DOMAIN mem) \cup dst |->
           IF o \in dst THEN ReadVerb(mem, o - (newSize - oldSize)) ELSE mem[o]]

\* makeSpace without the clamp to kMinSize.
makeSpaceNoMinimum(r, size) ==
    LET growSize == size - r.fFreeSpace
        oldSize == currSize(r)
        g1 == RoundUp8(growSize)
        g2 == IF g1 < oldSize THEN oldSize ELSE g1
        newSize == oldSize + g2
        mem == verbsMoved(Image(r), oldSize, newSize, r.fVerbCnt)
    IN IF growSize <= 0 THEN r
       ELSE [r EXCEPT !.buf = TRUE, !.size = newSize, !.fFreeSpace = @ + g2,
                      !.verbs = [i \in 1..r.fVerbCnt |->
                                    ReadVerb(mem, VerbOffset(newSize, i - 1))],
                      !.points = [i \in 1..r.fPointCnt |->
                                     ReadPoint(mem, PointOffset(i - 1))]]

makeSpace(r, size) ==
    LET growSize == size - r.fFreeSpace
        oldSize == currSize(r)
        g1 == RoundUp8(growSize)
        g2 == IF g1 < oldSize THEN oldSize ELSE g1
        g3 == IF g2 < kMinSize THEN kMinSize ELSE g2
        newSize == oldSize + g3
        mem == verbsMoved(Image(r), oldSize, newSize, r.fVerbCnt)
    IN IF growSize <= 0 THEN r
       ELSE [r EXCEPT !.buf = TRUE, !.size = newSize, !.fFreeSpace = @ + g3,
                      !.verbs = [i \in 1..r.fVerbCnt |->
                                    ReadVerb(mem, VerbOffset(newSize, i - 1))],
                      !.points = [i \in 1..r.fPointCnt |->
                                     ReadPoint(mem, PointOffset(i - 1))]]

incReserve(r, additionalVerbs, additionalPoints) ==
    makeSpace(r, additionalVerbs * SizeofVerb + additionalPoints * SizeofSkPoint)

\* --------------------------------------------------------- resetToSize
\* resetToSize that never reuses the buffer.
resetToSizeAlwaysFrees(r, verbCount, pointCount, conicCount, reserveVerbs, reservePoints, mv, mp, mc) ==
    LET r0 == [MarkBoundsDirty(r) EXCEPT !.fGenerationID = 0]
        newSize == SizeofVerb * verbCount + SizeofSkPoint * pointCount
        newReserve == SizeofVerb * reserveVerbs + SizeofSkPoint * reservePoints
        freed == [r0 EXCEPT !.buf = FALSE, !.size = 0, !.fFreeSpace = 0,
                            !.fVerbCnt = 0, !.fPointCnt = 0]
        grown == makeSpace(freed, newSize + newReserve)
    IN [grown EXCEPT !.fVerbCnt = verbCount, !.fPointCnt = pointCount,
                     !.fFreeSpace = @ - newSize,
                     !.verbs = mv, !.points = mp,
                     !.fConicWeights = Keep(r.fConicWeights, mc, conicCount, TRUE)]

\* mv, mp, mc: what the uninitialised verb, point and weight slots hold.
resetToSize(r, verbCount, pointCount, conicCount, reserveVerbs, reservePoints, mv, mp, mc) ==
    LET r0 == [MarkBoundsDirty(r) EXCEPT !.fGenerationID = 0]
        newSize == SizeofVerb * verbCount + SizeofSkPoint * pointCount
        newReserve == SizeofVerb * reserveVerbs + SizeofSkPoint * reservePoints
        minSize == newSize + newReserve
        sizeDelta == currSize(r0) - minSize
        realloc == sizeDelta < 0 \/ sizeDelta >= 3 * minSize
        freed == [r0 EXCEPT !.buf = FALSE, !.size = 0, !.fFreeSpace = 0,
                            !.fVerbCnt = 0, !.fPointCnt = 0]
        grown == makeSpace(freed, minSize)
        r1 == IF realloc
              THEN [grown EXCEPT !.fVerbCnt = verbCount, !.fPointCnt = pointCount,
                                 !.fFreeSpace = @ - newSize]
              ELSE [r0 EXCEPT !.fPointCnt = pointCount, !.fVerbCnt = verbCount,
                              !.fFreeSpace = currSize(r0) - minSize]
    IN [r1 EXCEPT !.verbs = Keep(r.verbs, mv, verbCount, ~realloc),
                  !.points = Keep(r.points, mp, pointCount, ~realloc),
                  !.fConicWeights = Keep(r.fConicWeights, mc, conicCount, TRUE)]

\* ---------------------------------------------------------------- grow
grow(r, newVerbs, newPoints, mv, mp) ==
    LET space == newVerbs * SizeofVerb + newPoints * SizeofSkPoint
        r1 == makeSpace(r, space)
    IN MarkBoundsDirty([r1 EXCEPT !.fVerbCnt = @ + newVerbs,
                                  !.fPointCnt = @ + newPoints,
                                  !.fFreeSpace = @ - space,
                                  !.verbs = @ \o mv,
                                  !.points = @ \o mp])

\* The pointers Editor::grow hands back, as offsets into the allocation of
\* the storage after grow: fVerbs - oldVerbCnt and fPoints + oldPointCnt.
EditorGrowVerbs(r, post) == currSize(post) - SizeofVerb * r.fVerbCnt
EditorGrowPts(r, post) == PointOffset(r.fPointCnt)

\* ---------------------------------------------------------------- copy
copy(this, ref, additionalReserveVerbs, additionalReservePoints) ==
    LET r1 == resetToSize(this, ref.fVerbCnt, ref.fPointCnt, Len(ref.fConicWeights),
                          additionalReserveVerbs, additionalReservePoints,
                          Fill(VerbVals, ref.fVerbCnt), Fill(PointVals, ref.fPointCnt),
                          Fill(ConicVals, Len(ref.fConicWeights)))
        r2 == [r1 EXCEPT !.verbs = ref.verbs, !.points = ref.points,
                         !.fConicWeights = ref.fConicWeights,
                         !.fGenerationID = ref.fGenerationID,
                         !.fBoundsIsDirty = ref.fBoundsIsDirty]
    IN IF ~r2.fBoundsIsDirty
       THEN [r2 EXCEPT !.fBounds = ref.fBounds, !.fIsFinite = ref.fIsFinite]
       ELSE r2

\* ------------------------------------------------------- computeBounds
\* ComputePtBounds that ignores no point: one point goes to setBoundsCheck.
ComputePtBoundsOfOnePoint(r) ==
    IF r.fPointCnt < 1
    THEN [rect |-> EmptyRect, finite |-> TRUE]
    ELSE SetBoundsCheck(r.points)

ComputePtBounds(r) ==
    IF r.fPointCnt <= 1
    THEN [rect |-> EmptyRect,
          finite |-> IF r.fPointCnt # 0 THEN PointIsFinite(r.points[1]) ELSE TRUE]
    ELSE SetBoundsCheck(r.points)

computeBounds(r) ==
    LET c == ComputePtBounds(r)
    IN [r EXCEPT !.fIsFinite = c.finite, !.fBounds = c.rect, !.fBoundsIsDirty = FALSE]

getBounds(r) == IF r.fBoundsIsDirty THEN computeBounds(r) ELSE r

\* isFinite() as a change of the storage; it returns fIsFinite.
isFinite(r) == IF r.fBoundsIsDirty THEN computeBounds(r) ELSE r

setBounds(r, rect) ==
    [r EXCEPT !.fBounds = rect, !.fBoundsIsDirty = FALSE, !.fIsFinite = RectIsFinite(rect)]

\* --------------------------------------------------------------- genID
\* An int32_t, here of GenIDWidth bits, in two's complement.
WrapInt(x) ==
    LET m == 2 ^ GenIDWidth
        h == 2 ^ (GenIDWidth - 1)
    IN ((x + h) % m) - h

\* One pass of the loop, its test left out.
DrawIDOnce(ctr) == WrapInt(ctr + 1)

\* The do-while loop: the counter after the draws and the ID drawn.
RECURSIVE DrawID(_)
DrawID(ctr) ==
    LET id == WrapInt(ctr + 1)
    IN IF id <= kEmptyGenID THEN DrawID(id) ELSE id

\* genID() without the test !fGenerationID: an ID is determined at every call.
genIDAlwaysDraws(r, ctr) ==
    IF r.fPointCnt = 0 /\ r.fVerbCnt = 0
    THEN [ref |-> [r EXCEPT !.fGenerationID = kEmptyGenID], ctr |-> ctr]
    ELSE [ref |-> [r EXCEPT !.fGenerationID = DrawID(ctr)], ctr |-> DrawID(ctr)]

\* The storage and the counter after genID(); its value is the storage's
\* fGenerationID afterwards.
genID(r, ctr) ==
    IF r.fGenerationID # 0 THEN [ref |-> r, ctr |-> ctr]
    ELSE IF r.fPointCnt = 0 /\ r.fVerbCnt = 0
         THEN [ref |-> [r EXCEPT !.fGenerationID = kEmptyGenID], ctr |-> ctr]
         ELSE [ref |-> [r EXCEPT !.fGenerationID = DrawID(ctr)], ctr |-> DrawID(ctr)]

\* The values an int32_t of GenIDWidth bits takes.
MinInt == 0 - 2 ^ (GenIDWidth - 1)
MaxInt == 2 ^ (GenIDWidth - 1) - 1
Counters == MinInt..MaxInt

\* What genID() may leave when it draws.  sk_atomic_inc(...) + 1 is signed
\* arithmetic: with the counter at MaxInt it overflows, which is undefined, and
\* a build either wraps and goes round the loop or takes the sum for greater
\* than kEmptyGenID and leaves the loop with the wrapped value.
genIDOutcomes(r, ctr) ==
    IF r.fGenerationID = 0 /\ ~(r.fPointCnt = 0 /\ r.fVerbCnt = 0) /\ ctr = MaxInt
    THEN {genID(r, ctr), [ref |-> [r EXCEPT !.fGenerationID = MinInt], ctr |-> MinInt]}
    ELSE {genID(r, ctr)}

\* ================================================================= state
VARIABLES
    refs,                  \* the SkPathRef objects, by slot
    handle,                \* each SkAutoTUnref<SkPathRef>: a slot, or NULL
    editor,                \* each Editor's fPathRef, or NULL when not constructed
    gEmptyPathRef,         \* CreateEmpty's static
    gPathRefGenerationID,  \* genID's static counter
    release,               \* SK_RELEASE (otherwise SK_DEBUG: SkASSERT aborts)
    call                   \* per thread: where its CreateEmpty() or genID() call
                           \* stands, what its last CreateEmpty() returned (ret),
                           \* the ID it holds in a register (reg) and what its
                           \* last genID() returned (id)

vars == <<refs, handle, editor, gEmptyPathRef, gPathRefGenerationID, release, call>>

Init ==
    /\ refs = [s \in Storages |-> DeadRef]
    /\ handle = [h \in Handles |-> NULL]
    /\ editor = [e \in Editors |-> NULL]
    /\ gEmptyPathRef = NULL
    /\ gPathRefGenerationID = 0
    /\ release \in BOOLEAN
    /\ call = [h \in Handles |-> [pc |-> "idle", ret |-> NULL, reg |-> 0, id |-> 0]]

\* An SkASSERT: compiled out of the release build, fatal in the debug build.
SkASSERT(cond) == IF release THEN TRUE ELSE cond

Live == {s \in Storages : refs[s].live}

unique(r) == r.fRefCnt = 1

\* SkNEW(SkPathRef): the object is built in the first free slot.
HasFreeSlot == \E s \in Storages : ~refs[s].live
NewSlot == CHOOSE s \in Storages : ~refs[s].live /\ \A t \in 1..(s - 1) : refs[t].live

\* SkRefCnt::unref, and ~SkPathRef when the count reaches zero.
Unref(rf, s) ==
    [rf EXCEPT ![s] = IF @.fRefCnt = 1 THEN DeadRef ELSE [@ EXCEPT !.fRefCnt = @ - 1]]

Ref(rf, s) == [rf EXCEPT ![s].fRefCnt = @ + 1]

\* Dropping a reference to s is modelled when it does not destroy an object an
\* Editor still points to (the Editor would dangle); ~SkPathRef validates.
CanUnref(s) ==
    unique(refs[s]) =>
        /\ \A e \in Editors : editor[e] # s
        /\ SkASSERT(validate(refs[s]))

\* SkAutoTUnref::reset(obj) on a handle holding old (NULL before its first use).
Reset(rf, old) == IF old = NULL THEN rf ELSE Unref(rf, old)
CanReset(old) == IF old = NULL THEN TRUE ELSE CanUnref(old)

\* ------------------------------------------------------------ CreateEmpty
CreateEmpty(h) ==
    /\ CanReset(handle[h])
    /\ IF gEmptyPathRef = NULL
       THEN /\ HasFreeSlot
            /\ gEmptyPathRef' = NewSlot
            /\ refs' = Reset(Ref([refs EXCEPT ![NewSlot] = NewPathRef], NewSlot), handle[h])
            /\ handle' = [handle EXCEPT ![h] = NewSlot]
       ELSE /\ gEmptyPathRef' = gEmptyPathRef
            /\ refs' = Reset(Ref(refs, gEmptyPathRef), handle[h])
            /\ handle' = [handle EXCEPT ![h] = gEmptyPathRef]
    /\ UNCHANGED <<editor, gPathRefGenerationID, release, call>>

\* CreateEmpty() as a thread runs it, statement by statement; the thread keeps
\* the result in its handle h.  The test of the static:
CreateEmptyTest(h) ==
    /\ call[h].pc = "idle"
    /\ call' = [call EXCEPT ![h].pc = IF gEmptyPathRef = NULL THEN "new" ELSE "ref"]
    /\ UNCHANGED <<refs, handle, editor, gEmptyPathRef, gPathRefGenerationID, release>>

\* gEmptyPathRef = SkNEW(SkPathRef); an object the static pointed to stays
\* allocated, with the reference the static held.
CreateEmptyNew(h) ==
    /\ call[h].pc = "new"
    /\ HasFreeSlot
    /\ refs' = [refs EXCEPT ![NewSlot] = NewPathRef]
    /\ gEmptyPathRef' = NewSlot
    /\ call' = [call EXCEPT ![h].pc = "ref"]
    /\ UNCHANGED <<handle, editor, gPathRefGenerationID, release>>

\* return SkRef(gEmptyPathRef), and the caller's handle takes the result.
CreateEmptyRef(h) ==
    /\ call[h].pc = "ref"
    /\ CanReset(handle[h])
    /\ refs' = Reset(Ref(refs, gEmptyPathRef), handle[h])
    /\ handle' = [handle EXCEPT ![h] = gEmptyPathRef]
    /\ call' = [call EXCEPT ![h].pc = "idle", ![h].ret = gEmptyPathRef]
    /\ UNCHANGED <<editor, gEmptyPathRef, gPathRefGenerationID, release>>

\* One handle is assigned another's storage (SkRef, then SkAutoTUnref::reset).
Share(h, from) ==
    /\ h # from
    /\ handle[from] # NULL
    /\ handle[h] # handle[from]
    /\ CanReset(handle[h])
    /\ refs' = Reset(Ref(refs, handle[from]), handle[h])
    /\ handle' = [handle EXCEPT ![h] = handle[from]]
    /\ UNCHANGED <<editor, gEmptyPathRef, gPathRefGenerationID, release, call>>

\* ----------------------------------------------------------------- Editor
Attach(r) == [r EXCEPT !.fGenerationID = 0, !.fEditorsAttached = @ + 1]

\* An Editor that never copies: it edits the storage in place, shared or not.
EditorCtorInPlace(e, h, incReserveVerbs, incReservePoints) ==
    /\ editor[e] = NULL
    /\ handle[h] # NULL
    /\ refs' = [refs EXCEPT ![handle[h]] =
                   Attach(incReserve(@, incReserveVerbs, incReservePoints))]
    /\ editor' = [editor EXCEPT ![e] = handle[h]]
    /\ UNCHANGED <<handle, gEmptyPathRef, gPathRefGenerationID, release, call>>

EditorCtor(e, h, incReserveVerbs, incReservePoints) ==
    /\ editor[e] = NULL
    /\ handle[h] # NULL
    /\ LET s == handle[h] IN
       /\ SkASSERT(validate(refs[s]))
       /\ IF unique(refs[s])
          THEN /\ refs' = [refs EXCEPT ![s] =
                              Attach(incReserve(@, incReserveVerbs, incReservePoints))]
               /\ handle' = handle
               /\ editor' = [editor EXCEPT ![e] = s]
          ELSE /\ HasFreeSlot
               /\ refs' = [Unref(refs, s) EXCEPT ![NewSlot] =
                              Attach(copy(NewPathRef, refs[s],
                                          incReserveVerbs, incReservePoints))]
               /\ handle' = [handle EXCEPT ![h] = NewSlot]
               /\ editor' = [editor EXCEPT ![e] = NewSlot]
    /\ UNCHANGED <<gEmptyPathRef, gPathRefGenerationID, release, call>>

EditorDtor(e) ==
    /\ editor[e] # NULL
    /\ refs' = [refs EXCEPT ![editor[e]].fEditorsAttached = @ - 1]
    /\ editor' = [editor EXCEPT ![e] = NULL]
    /\ UNCHANGED <<handle, gEmptyPathRef, gPathRefGenerationID, release, call>>

\* *ed.atPoint(i) = p, or ed.points()[i] = p: i is a C index.
EditorWritePoint(e, i, p) ==
    /\ editor[e] # NULL
    /\ i < refs[editor[e]].fPointCnt
    /\ refs' = [refs EXCEPT ![editor[e]].points[i + 1] = p]
    /\ UNCHANGED <<handle, editor, gEmptyPathRef, gPathRefGenerationID, release, call>>

EditorGrow(e, newVerbs, newPts, mv, mp) ==
    /\ editor[e] # NULL
    /\ SkASSERT(validate(refs[editor[e]]))
    /\ refs' = [refs EXCEPT ![editor[e]] = grow(@, newVerbs, newPts, mv, mp)]
    /\ UNCHANGED <<handle, editor, gEmptyPathRef, gPathRefGenerationID, release, call>>

EditorResetToSize(e, newVerbCnt, newPointCnt, newConicCount, mv, mp, mc) ==
    /\ editor[e] # NULL
    /\ SkASSERT(validate(refs[editor[e]]))
    /\ refs' = [refs EXCEPT ![editor[e]] =
                   resetToSize(@, newVerbCnt, newPointCnt, newConicCount, 0, 0, mv, mp, mc)]
    /\ UNCHANGED <<handle, editor, gEmptyPathRef, gPathRefGenerationID, release, call>>

\* resetToSize as the class calls it on itself (copy, Rewind), with its two
\* reserve arguments, here on the storage Editor e edits.  validate() is its
\* first and its last statement.
ResetToSizeReserving(e, verbCount, pointCount, conicCount, reserveVerbs, reservePoints, mv, mp, mc) ==
    LET after == resetToSize(refs[editor[e]], verbCount, pointCount, conicCount,
                             reserveVerbs, reservePoints, mv, mp, mc)
    IN /\ editor[e] # NULL
       /\ SkASSERT(validate(refs[editor[e]]))
       /\ SkASSERT(validate(after))
       /\ refs' = [refs EXCEPT ![editor[e]] = after]
       /\ UNCHANGED <<handle, editor, gEmptyPathRef, gPathRefGenerationID, release, call>>

\* ----------------------------------------------------------- bounds cache
GetBounds(h) ==
    /\ handle[h] # NULL
    /\ refs' = [refs EXCEPT ![handle[h]] = getBounds(@)]
    /\ UNCHANGED <<handle, editor, gEmptyPathRef, gPathRefGenerationID, release, call>>

SetBounds(h, rect) ==
    /\ handle[h] # NULL
    /\ RectIsSorted(rect)
    /\ refs' = [refs EXCEPT ![handle[h]] = setBounds(@, rect)]
    /\ UNCHANGED <<handle, editor, gEmptyPathRef, gPathRefGenerationID, release, call>>


\* -------------------------------------------------- CreateTransformedCopy
\* matrix.mapPoints((*dst)->fPoints, src.points(), src.fPointCnt) writes
\* src.fPointCnt points at the start of dst's buffer.  Through a NULL fPoints
\* the write faults; past the free space it would run into the verbs or off
\* the allocation.  Neither outcome is modelled: the step is not taken.
MapPointsFits(dst, src) ==
    IF src.fPointCnt = 0 THEN TRUE
    ELSE dst.buf /\ SizeofSkPoint * src.fPointCnt <= currSize(dst) - SizeofVerb * dst.fVerbCnt

\* dst after the points are mapped into it and its bounds cache is set.
\* The transform that maps known bounds without looking at src.fIsFinite.
transformIntoIgnoresFinite(dst, src, m) ==
    LET canXformBounds == ~src.fBoundsIsDirty /\ RectStaysRect(m) /\ src.fPointCnt > 1
        d1 == [dst EXCEPT !.points =
                   [i \in 1..dst.fPointCnt |->
                       IF i <= src.fPointCnt THEN MapPoint(m, src.points[i])
                                             ELSE dst.points[i]]]
        mapped == MapRect(m, src.fBounds)
    IN IF canXformBounds
       THEN IF RectIsFinite(mapped)
            THEN [d1 EXCEPT !.fBoundsIsDirty = FALSE, !.fBounds = mapped, !.fIsFinite = TRUE]
            ELSE [d1 EXCEPT !.fBoundsIsDirty = FALSE, !.fBounds = EmptyRect,
                            !.fIsFinite = FALSE]
       ELSE MarkBoundsDirty(d1)

transformInto(dst, src, m) ==
    LET canXformBounds == ~src.fBoundsIsDirty /\ RectStaysRect(m) /\ src.fPointCnt > 1
        d1 == [dst EXCEPT !.points =
                   [i \in 1..dst.fPointCnt |->
                       IF i <= src.fPointCnt THEN MapPoint(m, src.points[i])
                                             ELSE dst.points[i]]]
        mapped == MapRect(m, src.fBounds)
    IN IF canXformBounds
       THEN IF src.fIsFinite /\ RectIsFinite(mapped)
            THEN [d1 EXCEPT !.fBoundsIsDirty = FALSE, !.fBounds = mapped, !.fIsFinite = TRUE]
            ELSE [d1 EXCEPT !.fBoundsIsDirty = FALSE, !.fBounds = EmptyRect,
                            !.fIsFinite = FALSE]
       ELSE MarkBoundsDirty(d1)

\* The new storage a shared dst is replaced by, before the points are mapped.
transformTarget(src) ==
    LET r1 == resetToSize(NewPathRef, src.fVerbCnt, src.fPointCnt, Len(src.fConicWeights),
                          0, 0, Fill(VerbVals, src.fVerbCnt), Fill(PointVals, src.fPointCnt),
                          Fill(ConicVals, Len(src.fConicWeights)))
    IN [r1 EXCEPT !.verbs = src.verbs, !.fConicWeights = src.fConicWeights]

CreateTransformedCopy(hd, hs, m) ==
    /\ handle[hd] # NULL
    /\ handle[hs] # NULL
    /\ LET d == handle[hd]
           s == handle[hs]
       IN
       /\ SkASSERT(validate(refs[s]))
       /\ IF IsIdentity(m)
          THEN IF d # s
               THEN /\ CanUnref(d)
                    /\ refs' = Unref(Ref(refs, s), d)
                    /\ handle' = [handle EXCEPT ![hd] = s]
               ELSE UNCHANGED <<refs, handle>>
          ELSE IF ~unique(refs[d])
               THEN /\ HasFreeSlot
                    /\ refs' = [Unref(refs, d) EXCEPT ![NewSlot] =
                                   transformInto(transformTarget(refs[s]), refs[s], m)]
                    /\ handle' = [handle EXCEPT ![hd] = NewSlot]
                    /\ SkASSERT(validate(refs'[NewSlot]))
               ELSE /\ MapPointsFits(refs[d], refs[s])
                    /\ refs' = [refs EXCEPT ![d] = transformInto(@, refs[s], m)]
                    /\ handle' = handle
                    /\ SkASSERT(validate(refs'[d]))
    /\ UNCHANGED <<editor, gEmptyPathRef, gPathRefGenerationID, release, call>>

\* ----------------------------------------------------------------- Rewind
\* Rewind that gives the allocation back, as resetToSize(0, 0, 0) does.
rewindFreesBuffer(r) ==
    [MarkBoundsDirty(r) EXCEPT !.buf = FALSE, !.size = 0, !.fFreeSpace = 0,
                               !.fVerbCnt = 0, !.fPointCnt = 0, !.fGenerationID = 0,
                               !.verbs = <<>>, !.points = <<>>, !.fConicWeights = <<>>]

rewindInPlace(r) ==
    [MarkBoundsDirty(r) EXCEPT !.fVerbCnt = 0, !.fPointCnt = 0,
                               !.fFreeSpace = currSize(r), !.fGenerationID = 0,
                               !.verbs = <<>>, !.points = <<>>, !.fConicWeights = <<>>]

Rewind(h) ==
    /\ handle[h] # NULL
    /\ LET s == handle[h] IN
       /\ SkASSERT(validate(refs[s]))
       /\ IF unique(refs[s])
          THEN /\ refs' = [refs EXCEPT ![s] = rewindInPlace(@)]
               /\ handle' = handle
          ELSE /\ HasFreeSlot
               /\ refs' = [Unref(refs, s) EXCEPT ![NewSlot] =
                              resetToSize(NewPathRef, 0, 0, 0,
                                          refs[s].fVerbCnt, refs[s].fPointCnt,
                                          <<>>, <<>>, <<>>)]
               /\ handle' = [handle EXCEPT ![h] = NewSlot]
    /\ UNCHANGED <<editor, gEmptyPathRef, gPathRefGenerationID, release, call>>

\* ------------------------------------------------------------- operator==
SameContent(a, b) ==
    /\ a.fPointCnt = b.fPointCnt
    /\ a.fVerbCnt = b.fVerbCnt
    /\ a.verbs = b.verbs
    /\ a.points = b.points
    /\ a.fConicWeights = b.fConicWeights

genIDMatch(this, ref) ==
    this.fGenerationID # 0 /\ this.fGenerationID = ref.fGenerationID

\* What this == ref returns.
equals(this, ref) ==
    IF release /\ genIDMatch(this, ref) THEN TRUE
    ELSE IF this.fPointCnt # ref.fPointCnt \/ this.fVerbCnt # ref.fVerbCnt THEN FALSE
    ELSE IF this.verbs # ref.verbs THEN FALSE
    ELSE IF this.points # ref.points THEN FALSE
    ELSE IF this.fConicWeights # ref.fConicWeights THEN FALSE
    ELSE TRUE

\* genID() draws a new ID: the model stops the counter at MaxGenID.
Draws(r) == r.fGenerationID = 0 /\ ~(r.fPointCnt = 0 /\ r.fVerbCnt = 0)
CanDraw == gPathRefGenerationID < MaxGenID

\* operator== without the test 0 == fGenerationID: this adopts ref's ID
\* whenever the contents are equal.
opEqualsAlwaysAdopts(rf, a, b, ctr) ==
    LET g == genID(rf[b], ctr)
    IN IF (release /\ genIDMatch(rf[a], rf[b])) \/ ~equals(rf[a], rf[b])
       THEN [refs |-> rf, ctr |-> ctr]
       ELSE [refs |-> [rf EXCEPT ![b] = g.ref, ![a].fGenerationID = g.ref.fGenerationID],
             ctr |-> g.ctr]

\* The storages and the counter after rf[a] == rf[b] has returned.
opEquals(rf, a, b, ctr) ==
    LET this == rf[a]
        ref == rf[b]
        g == genID(ref, ctr)
    IN IF (release /\ genIDMatch(this, ref)) \/ ~equals(this, ref)
       THEN [refs |-> rf, ctr |-> ctr]
       ELSE IF this.fGenerationID = 0
            THEN [refs |-> [rf EXCEPT ![b] = g.ref,
                                      ![a].fGenerationID = g.ref.fGenerationID],
                  ctr |-> g.ctr]
            ELSE IF ref.fGenerationID = 0
                 THEN [refs |-> [rf EXCEPT ![b].fGenerationID = this.fGenerationID],
                       ctr |-> ctr]
                 ELSE [refs |-> rf, ctr |-> ctr]

\* The SkASSERTs of rf[a] == rf[b], those of the genID() it calls included.
opEqualsAsserts(rf, a, b) ==
    LET this == rf[a]
        ref == rf[b]
    IN /\ validate(this) /\ validate(ref)
       /\ SameContent(this, ref) \/ ~genIDMatch(this, ref)
       /\ (SameContent(this, ref) /\ this.fGenerationID = 0) => ref.fEditorsAttached = 0
       /\ (SameContent(this, ref) /\ this.fGenerationID # 0 /\ ref.fGenerationID = 0)
              => this.fEditorsAttached = 0

\* Whether rf[a] == rf[b] draws an ID from the counter.
opEqualsDraws(rf, a, b) ==
    equals(rf[a], rf[b]) /\ rf[a].fGenerationID = 0 /\ Draws(rf[b])

OpEquals(ha, hb) ==
    /\ handle[ha] # NULL
    /\ handle[hb] # NULL
    /\ SkASSERT(opEqualsAsserts(refs, handle[ha], handle[hb]))
    /\ opEqualsDraws(refs, handle[ha], handle[hb]) => CanDraw
    /\ refs' = opEquals(refs, handle[ha], handle[hb], gPathRefGenerationID).refs
    /\ gPathRefGenerationID' = opEquals(refs, handle[ha], handle[hb], gPathRefGenerationID).ctr
    /\ UNCHANGED <<handle, editor, gEmptyPathRef, release, call>>

\* genID() called by the owner of a handle.  Its SkASSERT(!fEditorsAttached) is
\* the caller's obligation in every build: the call is made with no Editor
\* attached.
GenID(h) ==
    /\ handle[h] # NULL
    /\ refs[handle[h]].fEditorsAttached = 0
    /\ Draws(refs[handle[h]]) => CanDraw
    /\ refs' = [refs EXCEPT ![handle[h]] = genID(@, gPathRefGenerationID).ref]
    /\ gPathRefGenerationID' = genID(refs[handle[h]], gPathRefGenerationID).ctr
    /\ UNCHANGED <<handle, editor, gEmptyPathRef, release, call>>

\* genID() step by step, as a thread that holds handle h runs it with other
\* threads running theirs.  call[h].reg is the value of fGenerationID the
\* thread has in a register and call[h].id what its last genID() returned.
\* Only sk_atomic_inc is atomic; fGenerationID is read and written plainly.

\* if (!fGenerationID), and the branch for a storage without content.
GenIDTest(h) ==
    /\ call[h].pc = "idle"
    /\ handle[h] # NULL
    /\ refs[handle[h]].fEditorsAttached = 0
    /\ LET r == refs[handle[h]]
       IN IF r.fGenerationID # 0
          THEN /\ call' = [call EXCEPT ![h].pc = "return", ![h].reg = r.fGenerationID]
               /\ refs' = refs
          ELSE IF r.fPointCnt = 0 /\ r.fVerbCnt = 0
               THEN /\ refs' = [refs EXCEPT ![handle[h]].fGenerationID = kEmptyGenID]
                    /\ call' = [call EXCEPT ![h].pc = "return", ![h].reg = kEmptyGenID]
               ELSE /\ call' = [call EXCEPT ![h].pc = "draw", ![h].reg = 0]
                    /\ refs' = refs
    /\ UNCHANGED <<handle, editor, gEmptyPathRef, gPathRefGenerationID, release>>

\* One pass of the loop: fGenerationID = sk_atomic_inc(&gPathRefGenerationID) + 1
\* and its test.
GenIDDraw(h) ==
    /\ call[h].pc = "draw"
    /\ CanDraw
    /\ LET drawn == WrapInt(gPathRefGenerationID + 1)
       IN /\ gPathRefGenerationID' = drawn
          /\ refs' = [refs EXCEPT ![handle[h]].fGenerationID = drawn]
          /\ call' = [call EXCEPT ![h].pc = IF drawn <= kEmptyGenID THEN "draw" ELSE "return",
                                  ![h].reg = drawn]
    /\ UNCHANGED <<handle, editor, gEmptyPathRef, release>>

\* return fGenerationID: the value the thread holds, or the field read again.
GenIDReturn(h) ==
    /\ call[h].pc = "return"
    /\ \E v \in {call[h].reg, refs[handle[h]].fGenerationID} :
           call' = [call EXCEPT ![h].pc = "idle", ![h].id = v]
    /\ UNCHANGED <<refs, handle, editor, gEmptyPathRef, gPathRefGenerationID, release>>

\* ========================================================= specification
\* The steps, over the inputs a specification draws: the editors and handles
\* it uses, the largest counts, and the values memory and arguments may hold.
CreateEmptyStep(H) == \E h \in H : CreateEmpty(h)
CreateEmptyTestStep(H) == \E h \in H : CreateEmptyTest(h)
CreateEmptyNewStep(H) == \E h \in H : CreateEmptyNew(h)
CreateEmptyRefStep(H) == \E h \in H : CreateEmptyRef(h)
ShareStep(H) == \E h, from \in H : Share(h, from)
EditorCtorStep(E, H, hints) ==
    \E e \in E, h \in H, hint \in hints : EditorCtor(e, h, hint[1], hint[2])
EditorDtorStep(E) == \E e \in E : EditorDtor(e)
EditorWritePointStep(E, maxP, PV) ==
    \E e \in E, i \in 0..(maxP - 1), p \in PV : EditorWritePoint(e, i, p)
EditorGrowStep(E, counts, maxV, maxP, VV, PV) ==
    \E e \in E, n \in counts :
        /\ editor[e] # NULL
        /\ n[1] + n[2] > 0
        /\ refs[editor[e]].fVerbCnt + n[1] <= maxV
        /\ refs[editor[e]].fPointCnt + n[2] <= maxP
        /\ \E mv \in Mem(VV, n[1]), mp \in Mem(PV, n[2]) :
               EditorGrow(e, n[1], n[2], mv, mp)
EditorResetToSizeStep(E, counts, VV, PV, CV) ==
    \E e \in E, n \in counts :
        \E mv \in Mem(VV, n[1]), mp \in Mem(PV, n[2]), mc \in Mem(CV, n[3]) :
            EditorResetToSize(e, n[1], n[2], n[3], mv, mp, mc)
ResetToSizeReservingStep(E, counts, VV, PV, CV) ==
    \E e \in E, n \in counts :
        \E mv \in Mem(VV, n[1]), mp \in Mem(PV, n[2]), mc \in Mem(CV, n[3]) :
            ResetToSizeReserving(e, n[1], n[2], n[3], n[4], n[5], mv, mp, mc)
GetBoundsStep(H) == \E h \in H : GetBounds(h)
SetBoundsStep(H, rects) == \E h \in H, rect \in rects : SetBounds(h, rect)
CreateTransformedCopyStep(H, M) ==
    \E hd, hs \in H, m \in M : CreateTransformedCopy(hd, hs, m)
RewindStep(H) == \E h \in H : Rewind(h)
OpEqualsStep(H) == \E ha, hb \in H : OpEquals(ha, hb)
GenIDStep(H) == \E h \in H : GenID(h)
GenIDTestStep(H) == \E h \in H : GenIDTest(h)
GenIDDrawStep(H) == \E h \in H : GenIDDraw(h)
GenIDReturnStep(H) == \E h \in H : GenIDReturn(h)

\* The caller of setBounds installs the bounds it knows the points to have.
SetKnownBoundsStep(H, rects) ==
    \E h \in H, rect \in rects :
        /\ handle[h] # NULL
        /\ \A i \in 1..refs[handle[h]].fPointCnt : RectContains(rect, refs[handle[h]].points[i])
        /\ RectIsFinite(rect) = AllFinite(refs[handle[h]].points)
        /\ SetBounds(h, rect)

\* ------------------------------------------------------------------ Spec
\* Sharing, editing, generation IDs and equality.  getBounds and setBounds
\* are left to SpecBounds: they write fBounds, fBoundsIsDirty and fIsFinite
\* only, which copy and the transform only carry over to the same three
\* fields and validate() only reads in an SkASSERT, so that no count, verb,
\* point, weight, ID, size or reference is ever decided by them.
ReserveHints == {<<0, 0>>, <<1, 1>>}
InputVerbs == {0}
InputPoints == {<<1, 1>>}
InputConics == {1}
GrowCounts == (0..MaxVerbs) \X (0..MaxPoints)
ResetCounts == (0..MaxVerbs) \X (0..MaxPoints) \X (0..MaxConics)

Next ==
    \/ CreateEmptyStep(Handles)
    \/ ShareStep(Handles)
    \/ EditorCtorStep(Editors, Handles, ReserveHints)
    \/ EditorDtorStep(Editors)
    \/ EditorWritePointStep(Editors, MaxPoints, InputPoints)
    \/ EditorGrowStep(Editors, GrowCounts, MaxVerbs, MaxPoints, InputVerbs, InputPoints)
    \/ EditorResetToSizeStep(Editors, ResetCounts, InputVerbs, InputPoints, InputConics)
    \/ CreateTransformedCopyStep(Handles, Matrices)
    \/ RewindStep(Handles)
    \/ OpEqualsStep(Handles)
    \/ GenIDStep(Handles)

Spec == Init /\ [][Next]_vars

\* ------------------------------------------------------------ SpecBounds
\* The bounds cache: one Editor, points only, no generation IDs.
MaxBoundsPoints == 2
BoundsPoints == {<<0, 0>>, <<1, 1>>}
BoundsRects == {EmptyRect, Rect(0, 0, 1, 1), Rect(0, 0, Inf, Inf)}
BoundsGrowCounts == {<<0, 1>>, <<0, 2>>}
BoundsResetCounts == {<<0, 0, 0>>, <<0, 2, 0>>}
BoundsMatrices == Matrices \cup {"flip"}

NextBounds ==
    \/ CreateEmptyStep(Handles)
    \/ ShareStep(Handles)
    \/ EditorCtorStep({1}, Handles, {<<0, 0>>})
    \/ EditorDtorStep({1})
    \/ EditorWritePointStep({1}, MaxBoundsPoints, BoundsPoints)
    \/ EditorGrowStep({1}, BoundsGrowCounts, 0, MaxBoundsPoints, InputVerbs, BoundsPoints)
    \/ EditorResetToSizeStep({1}, BoundsResetCounts, InputVerbs, BoundsPoints, InputConics)
    \/ GetBoundsStep(Handles)
    \/ SetKnownBoundsStep(Handles, BoundsRects)
    \/ CreateTransformedCopyStep(Handles, Matrices)
    \/ RewindStep(Handles)

SpecBounds == Init /\ [][NextBounds]_vars

\* --------------------------------------------------------- SpecTransform
\* The transform of storages whose bounds are known or not, finite or not,
\* by matrices that keep rectangles and by one that does not.
NextTransform ==
    \/ CreateEmptyStep(Handles)
    \/ ShareStep(Handles)
    \/ EditorCtorStep({1}, Handles, {<<0, 0>>})
    \/ EditorDtorStep({1})
    \/ EditorGrowStep({1}, BoundsGrowCounts, 0, MaxBoundsPoints, InputVerbs, BoundsPoints)
    \/ GetBoundsStep(Handles)
    \/ SetKnownBoundsStep(Handles, BoundsRects)
    \/ CreateTransformedCopyStep(Handles, BoundsMatrices)

SpecTransform == Init /\ [][NextTransform]_vars

\* -------------------------------------------------------------- SpecSize
\* The allocation: counts large enough for makeSpace to grow a buffer and
\* for resetToSize to reuse one, every slot holding the same value.
MaxSizeVerbs == 3
MaxSizePoints == 12
SizeHints == {<<0, 0>>, <<3, 40>>}
SizeGrowCounts == {<<1, 1>>, <<2, 10>>}
SizeResetCounts == {<<0, 0, 0>>, <<3, 11, 1>>, <<2, 40, 0>>}
SizeVerbs == {0}
SizePoints == {<<0, 0>>}

SizesBounded == \A s \in Storages : refs'[s].size <= MaxBytes

NextSize ==
    \/ CreateEmptyStep(Handles)
    \/ ShareStep(Handles)
    \/ EditorCtorStep({1}, Handles, SizeHints) /\ SizesBounded
    \/ EditorDtorStep({1})
    \/ EditorGrowStep({1}, SizeGrowCounts, MaxSizeVerbs, MaxSizePoints, SizeVerbs, SizePoints)
           /\ SizesBounded
    \/ EditorResetToSizeStep({1}, SizeResetCounts, SizeVerbs, SizePoints, InputConics)
    \/ CreateTransformedCopyStep(Handles, {"identity", "scale"})
    \/ RewindStep(Handles)

SpecSize == Init /\ [][NextSize]_vars

\* ------------------------------------------------------------ SpecReserve
\* SpecSize and resetToSize with reserve arguments on a storage that holds a
\* buffer: <<verbs, points, weights, reserveVerbs, reservePoints>>.
ReserveResetCounts == {<<0, 5, 0, 0, 5>>, <<1, 1, 0, 3, 40>>}

NextReserve ==
    \/ NextSize
    \/ ResetToSizeReservingStep({1}, ReserveResetCounts, SizeVerbs, SizePoints, InputConics)

SpecReserve == Init /\ [][NextReserve]_vars

\* -------------------------------------------------------------- SpecGrow
\* Editor::grow on a storage that holds verbs of different values, by counts
\* that fit the free space and by counts that make makeSpace reallocate.
MaxGrowVerbs == 3
MaxGrowPoints == 33
ReallocGrowCounts == {<<1, 1>>, <<1, 31>>}

NextGrow ==
    \/ CreateEmptyStep(Handles)
    \/ ShareStep(Handles)
    \/ EditorCtorStep({1}, Handles, {<<0, 0>>})
    \/ EditorDtorStep({1})
    \/ EditorGrowStep({1}, ReallocGrowCounts, MaxGrowVerbs, MaxGrowPoints, VerbVals, SizePoints)
           /\ SizesBounded

SpecGrow == Init /\ [][NextGrow]_vars

\* ------------------------------------------------------------ SpecThreads
\* Threads that call CreateEmpty() concurrently, each keeping the result in
\* its own handle and then using it.
ThreadGrowCounts == {<<0, 1>>, <<1, 0>>}

NextThreads ==
    \/ CreateEmptyTestStep(Handles)
    \/ CreateEmptyNewStep(Handles)
    \/ CreateEmptyRefStep(Handles)
    \/ EditorCtorStep({1}, Handles, {<<0, 0>>})
    \/ EditorDtorStep({1})
    \/ EditorGrowStep({1}, ThreadGrowCounts, MaxVerbs, MaxPoints, InputVerbs, InputPoints)
    \/ CreateTransformedCopyStep(Handles, {"scale"})
    \/ RewindStep(Handles)
    \/ OpEqualsStep(Handles)
    \/ GenIDStep(Handles)

SpecThreads == Init /\ [][NextThreads]_vars

\* ------------------------------------------------------- SpecGenIDThreads
\* Threads that share storages an Editor has filled and then, with no Editor
\* at work any more and nothing else going on, call genID() concurrently.
NoCallYet == \A h \in Handles : call[h].pc = "idle" /\ call[h].id = 0

NextGenIDThreads ==
    \/ CreateEmptyStep(Handles) /\ NoCallYet
    \/ ShareStep(Handles) /\ NoCallYet
    \/ EditorCtorStep({1}, Handles, {<<0, 0>>}) /\ NoCallYet
    \/ EditorDtorStep({1}) /\ NoCallYet
    \/ EditorGrowStep({1}, ThreadGrowCounts, MaxVerbs, MaxPoints, InputVerbs, InputPoints)
           /\ NoCallYet
    \/ GenIDTestStep(Handles)
    \/ GenIDDrawStep(Handles)
    \/ GenIDReturnStep(Handles)

SpecGenIDThreads == Init /\ [][NextGenIDThreads]_vars

\* ================================================================ claims
Content(r) == <<r.fVerbCnt, r.fPointCnt, r.verbs, r.points, r.fConicWeights>>
Snapshot(r) == <<Content(r), r.fGenerationID>>

\* A mutation through Editor e: a write through points()/atPoint(), grow or
\* resetToSize.
EditorMutates(e) ==
    \/ EditorWritePointStep({e}, MaxPoints, InputPoints)
    \/ EditorGrowStep({e}, GrowCounts, MaxVerbs, MaxPoints, InputVerbs, InputPoints)
    \/ EditorResetToSizeStep({e}, ResetCounts, InputVerbs, InputPoints, InputConics)

\* C1. Copy-on-write isolation: when handles A and B hold the same storage, an
\* Editor constructed on A leaves B on that storage, with its counts, verbs,
\* points, weights and generation ID as they were, and A on another storage,
\* the Editor's; and every mutation through an Editor changes nothing of a
\* storage other than the Editor's own, so B's stays as it was.
CopyOnWriteIsolation ==
    [][\A e \in Editors, A \in Handles, B \in Handles :
        (A # B /\ handle[B] # NULL) =>
          /\ (handle[A] = handle[B] /\ editor[e] = NULL /\ editor'[e] # NULL) =>
                \/ /\ handle'[B] = handle[B]
                   /\ handle'[A] # handle'[B]
                   /\ editor'[e] = handle'[A]
                   /\ Snapshot(refs'[handle[B]]) = Snapshot(refs[handle[B]])
                \/ ~EditorCtorStep({e}, {A}, ReserveHints)
          /\ (editor[e] # NULL /\ editor[e] # handle[B]
                               /\ refs'[editor[e]] # refs[editor[e]]) =>
                \/ Snapshot(refs'[handle[B]]) = Snapshot(refs[handle[B]])
                \/ ~EditorMutates(e)
      ]_vars

\* B still holds the canonical empty storage, untouched, while an Editor on A
\* has given A's own storage a point.
CopyOnWriteWitness ==
    \E e \in Editors, A \in Handles, B \in Handles :
        /\ A # B
        /\ handle[A] # NULL
        /\ handle[B] # NULL
        /\ handle[B] = gEmptyPathRef
        /\ handle[A] # handle[B]
        /\ editor[e] = handle[A]
        /\ refs[handle[A]].fPointCnt > 0
        /\ Snapshot(refs[handle[B]]) = Snapshot(NewPathRef)

\* C2. Generation-ID soundness: two storages with the same non-zero
\* generation ID have the same counts, verbs, points and conic weights.
GenIDSound ==
    \A a \in Live, b \in Live :
        (refs[a].fGenerationID # 0 /\ refs[a].fGenerationID = refs[b].fGenerationID)
            => SameContent(refs[a], refs[b])

\* C3. Size accounting: after every operation on a storage, resetToSize with
\* reserve arguments included, currSize == fFreeSpace + verbs + points *
\* sizeof(SkPoint), fFreeSpace >= 0, and the allocation is absent (size, free
\* space and both counts 0) exactly when fPoints and fVerbs are NULL.
Absent(r) == currSize(r) = 0 /\ r.fFreeSpace = 0 /\ r.fVerbCnt = 0 /\ r.fPointCnt = 0

SizeAccounting ==
    \A s \in Live :
        /\ currSize(refs[s]) =
               refs[s].fFreeSpace + refs[s].fVerbCnt * SizeofVerb
                                  + refs[s].fPointCnt * SizeofSkPoint
        /\ refs[s].fFreeSpace >= 0
        /\ Absent(refs[s]) <=> ~refs[s].buf
        /\ Len(refs[s].verbs) = refs[s].fVerbCnt
        /\ Len(refs[s].points) = refs[s].fPointCnt

\* C4. Editor lifecycle: a storage an Editor is attached to has generation ID 0.
EditorKeepsIDZero ==
    \A e \in Editors : editor[e] # NULL => refs[editor[e]].fGenerationID = 0

\* C5, as claimed. Generation-ID stability: a non-zero generation ID stays
\* what it is across every step that leaves the storage's content unchanged.
GenIDStable ==
    [][\A s \in Storages :
        (refs[s].live /\ refs'[s].live /\ refs[s].fGenerationID # 0
           /\ Content(refs'[s]) = Content(refs[s]))
            => refs'[s].fGenerationID = refs[s].fGenerationID
      ]_vars

\* The steps that clear a storage's ID by design: an Editor is constructed on
\* it, Editor::resetToSize, and Rewind of its only handle.
ClearsID(s) ==
    \/ refs'[s].fEditorsAttached = refs[s].fEditorsAttached + 1
    \/ \E e \in Editors :
           /\ editor[e] = s
           /\ EditorResetToSizeStep({e}, ResetCounts, InputVerbs, InputPoints, InputConics)
    \/ \E h \in Handles : handle[h] = s /\ unique(refs[s]) /\ Rewind(h)

\* C5, amended. A non-zero generation ID stays what it is across every step
\* that leaves the content unchanged, unless the step constructs an Editor on
\* the storage, is Editor::resetToSize or rewinds it in place.
GenIDStableUnlessCleared ==
    [][\A s \in Storages :
        (refs[s].live /\ refs'[s].live /\ refs[s].fGenerationID # 0
           /\ Content(refs'[s]) = Content(refs[s]))
            => \/ refs'[s].fGenerationID = refs[s].fGenerationID
               \/ ClearsID(s)
      ]_vars

\* Two handles share a storage that has points and a drawn ID, no Editor
\* attached.
GenIDStableWitness ==
    \E h1 \in Handles, h2 \in Handles :
        /\ h1 # h2
        /\ handle[h1] # NULL
        /\ handle[h1] = handle[h2]
        /\ refs[handle[h1]].fGenerationID > kEmptyGenID
        /\ refs[handle[h1]].fEditorsAttached = 0
        /\ \A e \in Editors : editor[e] = NULL

\* C6. Editor exclusivity: no storage has more than one Editor attached.
OneEditorPerStorage ==
    \A s \in Live : refs[s].fEditorsAttached \in {0, 1}

\* C7. Equality result: a == b is true exactly when the counts, verbs, points
\* and conic weights of a and b are equal.
EqualsIffSameContent ==
    \A a \in Live, b \in Live :
        equals(refs[a], refs[b]) <=> SameContent(refs[a], refs[b])

\* a == b returns (no SkASSERT of the debug build stops it).
Returns(a, b) == SkASSERT(opEqualsAsserts(refs, a, b))

IsEmpty(r) == r.fPointCnt = 0 /\ r.fVerbCnt = 0

KeepsID(post, s) ==
    refs[s].fGenerationID # 0 => post[s].fGenerationID = refs[s].fGenerationID

\* C8, as claimed. Equality caches identity: after a == b returned true both
\* have the same non-zero ID (1 when both are empty) and an ID that was
\* non-zero is kept; after it returned false both IDs are as before.
EqualsCachesIdentity ==
    \A a \in Live, b \in Live :
        LET post == opEquals(refs, a, b, gPathRefGenerationID).refs
        IN Returns(a, b) =>
             IF equals(refs[a], refs[b])
             THEN /\ post[a].fGenerationID = post[b].fGenerationID
                  /\ post[a].fGenerationID # 0
                  /\ (IsEmpty(refs[a]) /\ IsEmpty(refs[b])) =>
                         post[a].fGenerationID = kEmptyGenID
                  /\ KeepsID(post, a) /\ KeepsID(post, b)
             ELSE /\ post[a].fGenerationID = refs[a].fGenerationID
                  /\ post[b].fGenerationID = refs[b].fGenerationID

\* C8, amended. After a == b returned true, an ID that was non-zero is kept;
\* and unless both had non-zero IDs that differ, both have the same non-zero
\* ID (1 when both are empty).  After it returned false both IDs are as before.
EqualsCachesIdentityOfUnassigned ==
    \A a \in Live, b \in Live :
        LET post == opEquals(refs, a, b, gPathRefGenerationID).refs
            bothAssigned == /\ refs[a].fGenerationID # 0
                            /\ refs[b].fGenerationID # 0
                            /\ refs[a].fGenerationID # refs[b].fGenerationID
        IN Returns(a, b) =>
             IF equals(refs[a], refs[b])
             THEN /\ KeepsID(post, a) /\ KeepsID(post, b)
                  /\ ~bothAssigned =>
                       /\ post[a].fGenerationID = post[b].fGenerationID
                       /\ post[a].fGenerationID # 0
                       /\ (IsEmpty(refs[a]) /\ IsEmpty(refs[b])) =>
                              post[a].fGenerationID = kEmptyGenID
             ELSE /\ post[a].fGenerationID = refs[a].fGenerationID
                  /\ post[b].fGenerationID = refs[b].fGenerationID

\* Two storages with the same points share an ID drawn from the counter: one
\* of them has adopted the other's in ==.
EqualsCachesIdentityWitness ==
    \E a \in Live, b \in Live :
        /\ a # b
        /\ refs[a].fPointCnt > 0
        /\ SameContent(refs[a], refs[b])
        /\ refs[a].fGenerationID > kEmptyGenID
        /\ refs[a].fGenerationID = refs[b].fGenerationID

\* C9. Bounds-cache validity: a storage whose bounds are not dirty and that
\* has 2 points or more has every point within fBounds, and fIsFinite says
\* whether all its points are finite.
BoundsCacheValid ==
    \A s \in Live :
        (~refs[s].fBoundsIsDirty /\ refs[s].fPointCnt >= 2) =>
            /\ \A i \in 1..refs[s].fPointCnt : RectContains(refs[s].fBounds, refs[s].points[i])
            /\ refs[s].fIsFinite = AllFinite(refs[s].points)

\* C10. Reserved empty ID: a storage whose generation ID is 1 has no points,
\* no verbs and no conic weights.
EmptyIDMeansEmpty ==
    \A s \in Live :
        refs[s].fGenerationID = kEmptyGenID =>
            /\ refs[s].fPointCnt = 0
            /\ refs[s].fVerbCnt = 0
            /\ refs[s].fConicWeights = <<>>

\* C11. Non-identity transform result: after CreateTransformedCopy(dst, src, M),
\* M not the identity, whatever dst held, dst has the verb count, point count,
\* verbs and conic weights src had, and its point i is M applied to src's
\* point i.
TransformResult ==
    [][\A hd \in Handles, hs \in Handles, m \in Matrices \ {"identity"} :
        (handle[hd] # NULL /\ handle[hs] # NULL) =>
            \/ LET src == refs[handle[hs]]
                   dst == refs'[handle'[hd]]
               IN /\ dst.fVerbCnt = src.fVerbCnt
                  /\ dst.fPointCnt = src.fPointCnt
                  /\ dst.verbs = src.verbs
                  /\ dst.fConicWeights = src.fConicWeights
                  /\ dst.points = MapPoints(m, src.points)
            \/ ~CreateTransformedCopy(hd, hs, m)
      ]_vars

\* C12. Identity transform shares: CreateTransformedCopy(dst, src, identity)
\* leaves dst on src's storage, allocates no storage, leaves that storage's
\* content, bounds cache and generation ID as they were, and adds one to its
\* reference count when dst held another storage, nothing when dst held it.
IdentityShares ==
    [][\A hd \in Handles, hs \in Handles :
        (handle[hd] # NULL /\ handle[hs] # NULL) =>
            \/ LET s == handle[hs]
                   d == handle[hd]
               IN /\ handle'[hd] = s
                  /\ refs'[s] = [refs[s] EXCEPT !.fRefCnt = @ + (IF d = s THEN 0 ELSE 1)]
                  /\ \A t \in Storages : refs'[t].live => refs[t].live
            \/ ~CreateTransformedCopy(hd, hs, "identity")
      ]_vars

\* Two handles hold one storage that has two points and computed bounds, and
\* nothing else holds it.
IdentitySharesWitness ==
    \E h1 \in Handles, h2 \in Handles :
        /\ h1 # h2
        /\ handle[h1] # NULL
        /\ handle[h1] = handle[h2]
        /\ handle[h1] # gEmptyPathRef
        /\ refs[handle[h1]].fRefCnt = 2
        /\ refs[handle[h1]].fPointCnt = 2
        /\ ~refs[handle[h1]].fBoundsIsDirty

\* C13. Rewind of a uniquely owned storage keeps the storage and its currSize
\* and leaves it with no verbs, no points, no conic weights, fFreeSpace =
\* currSize, dirty bounds and generation ID 0; Rewind of a shared storage
\* redirects only the given handle, to a new empty storage, and leaves the
\* shared storage as it was for its other holders.
RewindKeepsAllocation ==
    [][\A h \in Handles :
        handle[h] # NULL =>
            \/ LET s == handle[h]
                   n == handle'[h]
               IN IF unique(refs[s])
                  THEN /\ handle' = handle
                       /\ currSize(refs'[s]) = currSize(refs[s])
                       /\ refs'[s].fFreeSpace = currSize(refs[s])
                       /\ refs'[s].buf = refs[s].buf
                       /\ Content(refs'[s]) = <<0, 0, <<>>, <<>>, <<>>>>
                       /\ refs'[s].fBoundsIsDirty
                       /\ refs'[s].fGenerationID = 0
                       /\ refs'[s].fRefCnt = 1
                  ELSE /\ n # s
                       /\ ~refs[n].live
                       /\ refs'[n].live
                       /\ Content(refs'[n]) = <<0, 0, <<>>, <<>>, <<>>>>
                       /\ \A g \in Handles \ {h} : handle'[g] = handle[g]
                       /\ refs'[s] = [refs[s] EXCEPT !.fRefCnt = @ - 1]
            \/ ~Rewind(h)
      ]_vars

\* A handle alone on a storage that kept the 256 bytes an Editor's grow had
\* allocated and holds nothing: it was rewound.
RewindWitness ==
    \E h \in Handles :
        /\ handle[h] # NULL
        /\ unique(refs[handle[h]])
        /\ currSize(refs[handle[h]]) = kMinSize
        /\ refs[handle[h]].fFreeSpace = kMinSize
        /\ refs[handle[h]].fPointCnt = 0
        /\ refs[handle[h]].fVerbCnt = 0
        /\ refs[handle[h]].fGenerationID = 0

\* C14. Canonical empty singleton: every call of CreateEmpty(), first calls
\* made concurrently included, returns one and the same storage, and that
\* storage has no verbs, no points and generation ID 1 in every state.
EmptySingleton ==
    /\ \A h1 \in Handles, h2 \in Handles :
           (call[h1].ret # NULL /\ call[h2].ret # NULL) => call[h1].ret = call[h2].ret
    /\ \A h \in Handles :
           call[h].ret # NULL =>
               /\ refs[call[h].ret].live
               /\ refs[call[h].ret].fVerbCnt = 0
               /\ refs[call[h].ret].fPointCnt = 0
               /\ refs[call[h].ret].fGenerationID = kEmptyGenID

\* Arguments <<verbCount, pointCount, conicCount, reserveVerbs, reservePoints>>
\* of resetToSize, and memory no one has written to.
ResetToSizeArgs ==
    {<<0, 0, 0, 0, 0>>, <<1, 1, 0, 0, 0>>, <<3, 11, 1, 0, 0>>, <<2, 40, 0, 0, 0>>,
     <<0, 5, 0, 0, 5>>, <<1, 1, 0, 3, 40>>}
FreshVerbs(n) == [i \in 1..n |-> -1]
FreshPoints(n) == [i \in 1..n |-> <<-1, -1>>]
FreshConics(n) == [i \in 1..n |-> -1]

AfterResetToSize(r, n) ==
    resetToSize(r, n[1], n[2], n[3], n[4], n[5],
                FreshVerbs(n[1]), FreshPoints(n[2]), FreshConics(n[3]))

\* C15. resetToSize postcondition: for all arguments and every starting
\* allocation, in either branch, resetToSize ends with the counts asked for,
\* generation ID 0, dirty bounds and fFreeSpace = currSize - (verbCount +
\* pointCount * sizeof(SkPoint)).
ResetToSizePostcondition ==
    \A s \in Live, n \in ResetToSizeArgs :
        ValidateSizes(refs[s]) =>
            LET post == AfterResetToSize(refs[s], n)
            IN /\ post.fVerbCnt = n[1]
               /\ post.fPointCnt = n[2]
               /\ Len(post.fConicWeights) = n[3]
               /\ post.fGenerationID = 0
               /\ post.fBoundsIsDirty
               /\ post.fFreeSpace =
                      currSize(post) - (SizeofVerb * n[1] + SizeofSkPoint * n[2])

MinSize(n) == SizeofVerb * n[1] + SizeofSkPoint * n[2] + SizeofVerb * n[4] + SizeofSkPoint * n[5]

\* The rule of the claim for freeing the buffer.
MustFree(r, n) ==
    currSize(r) < MinSize(n) \/ currSize(r) - MinSize(n) >= 3 * MinSize(n)

\* The buffer was reused: what it held is still there.  It was freed: the
\* points and verbs are those of memory no one has written to.
HoldsOld(r, post) ==
    /\ \A i \in 1..Min2(r.fVerbCnt, post.fVerbCnt) : post.verbs[i] = r.verbs[i]
    /\ \A i \in 1..Min2(r.fPointCnt, post.fPointCnt) : post.points[i] = r.points[i]
HoldsFresh(post) ==
    /\ post.verbs = FreshVerbs(post.fVerbCnt)
    /\ post.points = FreshPoints(post.fPointCnt)

\* C16, as claimed. The buffer is freed exactly when currSize < minSize or
\* currSize - minSize >= 3 * minSize, and the new allocation then has currSize
\* exactly minSize; otherwise the buffer is reused and currSize is unchanged.
ReallocExactlyMinSize ==
    \A s \in Live, n \in ResetToSizeArgs :
        ValidateSizes(refs[s]) =>
            LET post == AfterResetToSize(refs[s], n)
            IN IF MustFree(refs[s], n)
               THEN HoldsFresh(post) /\ currSize(post) = MinSize(n)
               ELSE HoldsOld(refs[s], post) /\ currSize(post) = currSize(refs[s])

\* C16, amended. The buffer is freed exactly when currSize < minSize or
\* currSize - minSize >= 3 * minSize, and the new allocation is the one
\* makeSpace(minSize) makes: none when minSize is 0, otherwise minSize rounded
\* up to a multiple of 8 and to at least kMinSize bytes; otherwise the buffer
\* is reused and currSize is unchanged.
ReallocRoundedMinSize ==
    \A s \in Live, n \in ResetToSizeArgs :
        ValidateSizes(refs[s]) =>
            LET post == AfterResetToSize(refs[s], n)
            IN IF MustFree(refs[s], n)
               THEN /\ HoldsFresh(post)
                    /\ currSize(post) = IF MinSize(n) = 0 THEN 0
                                        ELSE Max2(((MinSize(n) + 7) \div 8) * 8, kMinSize)
                    /\ currSize(post) >= MinSize(n)
                    /\ post.buf <=> MinSize(n) > 0
               ELSE /\ HoldsOld(refs[s], post)
                    /\ currSize(post) = currSize(refs[s])
                    /\ post.buf = refs[s].buf

\* resetToSize(3, 11, 1) has reused the 328 bytes an Editor's reservation of
\* 3 verbs and 40 points had allocated (a new allocation would be of 256).
ReallocWitness ==
    \E s \in Live :
        /\ currSize(refs[s]) = 328
        /\ refs[s].fVerbCnt = 3
        /\ refs[s].fPointCnt = 11
        /\ Len(refs[s].fConicWeights) = 1

\* Arguments <<newVerbs, newPts>> of Editor::grow.
GrowArgs == {<<1, 0>>, <<0, 1>>, <<1, 1>>, <<1, 31>>, <<2, 40>>}

\* C17. Editor::grow(newVerbs, newPts) raises the verb count and the point
\* count by its arguments and marks the bounds dirty; every verb and point
\* that was there keeps its value at its logical index, also when the buffer
\* is reallocated; the new verbs are the logical indices oldVerbCnt ..
\* oldVerbCnt + newVerbs - 1, written backwards from the verb pointer handed
\* back, and the point pointer handed back is the first new point.
GrowPreserves ==
    \A s \in Live, n \in GrowArgs :
        ValidateSizes(refs[s]) =>
            \A post \in {grow(refs[s], n[1], n[2], FreshVerbs(n[1]), FreshPoints(n[2]))} :
            \A image \in {Image(post)} :
                LET r == refs[s]
                    v == EditorGrowVerbs(r, post)
                    p == EditorGrowPts(r, post)
                IN /\ post.fVerbCnt = r.fVerbCnt + n[1]
                   /\ post.fPointCnt = r.fPointCnt + n[2]
                   /\ post.fBoundsIsDirty
                   /\ ValidateSizes(post)
                   /\ \A i \in 1..r.fVerbCnt : post.verbs[i] = r.verbs[i]
                   /\ \A i \in 1..r.fPointCnt : post.points[i] = r.points[i]
                   /\ \A i \in 0..(n[1] - 1) :
                          /\ v - SizeofVerb * (i + 1) = VerbOffset(currSize(post), r.fVerbCnt + i)
                          /\ image[v - SizeofVerb * (i + 1)] = FreshVerbs(n[1])[i + 1]
                   /\ \A i \in 0..(n[2] - 1) :
                          /\ p + SizeofSkPoint * i = PointOffset(r.fPointCnt + i)
                          /\ image[p + SizeofSkPoint * i] = FreshPoints(n[2])[i + 1]

\* grow(1, 31) has doubled the 256 bytes that held one verb of value 1 and one
\* point, and the verb is still the first one.
GrowWitness ==
    \E s \in Live :
        /\ currSize(refs[s]) = 2 * kMinSize
        /\ refs[s].fVerbCnt = 2
        /\ refs[s].fPointCnt = 32
        /\ refs[s].verbs[1] = 1
        /\ refs[s].fBoundsIsDirty

\* Arguments of makeSpace, in bytes.
MakeSpaceSizes == {0, 1, 9, 247, 248, 323, 600}

\* C18. makeSpace(n) changes nothing when fFreeSpace >= n; otherwise currSize
\* and fFreeSpace both grow by g = max(n - fFreeSpace rounded up to a multiple
\* of 8, the old currSize, kMinSize), after which fFreeSpace >= n; either way
\* the verb count and the point count are unchanged and currSize does not
\* decrease.
MakeSpaceGrowth ==
    \A s \in Live, n \in MakeSpaceSizes :
        \A post \in {makeSpace(refs[s], n)} :
            LET r == refs[s]
                need == n - r.fFreeSpace
                g == Max2(Max2(((need + 7) \div 8) * 8, currSize(r)), kMinSize)
            IN /\ IF r.fFreeSpace >= n
                  THEN post = r
                  ELSE /\ currSize(post) = currSize(r) + g
                       /\ post.fFreeSpace = r.fFreeSpace + g
                       /\ post.fFreeSpace >= n
                       /\ post.buf
               /\ post.fVerbCnt = r.fVerbCnt
               /\ post.fPointCnt = r.fPointCnt
               /\ currSize(post) >= currSize(r)

\* An Editor's reservation of 3 verbs and 40 points (323 bytes) on a storage
\* of 256 bytes holding one verb and one point has grown it by its own size,
\* not by the 80 bytes that were missing.
MakeSpaceWitness ==
    \E s \in Live :
        /\ currSize(refs[s]) = 2 * kMinSize
        /\ refs[s].fVerbCnt = 1
        /\ refs[s].fPointCnt = 1
        /\ refs[s].fFreeSpace = 2 * kMinSize - (SizeofVerb + SizeofSkPoint)

\* The matrices of SpecBounds that keep rectangles.
KeepsRects(m) == m = "scale" \/ m = "flip"

\* What mapPoints leaves in dst: the images of src's points.
PointsMapped(dst, src, m) ==
    \A i \in 1..Min2(dst.fPointCnt, src.fPointCnt) :
        dst.points[i] = MapPoint(m, src.points[i])

\* C19. After CreateTransformedCopy(dst, src, M) with M not the identity,
\* dst's bounds are known exactly when, before the call, src's bounds were
\* known, M keeps rectangles and src has more than one point; then dst.fBounds
\* is M(src.fBounds) and dst.fIsFinite is true if src.fIsFinite and the mapped
\* rectangle is finite, and otherwise dst.fBounds is empty and dst.fIsFinite
\* false.  In every other case dst's bounds are dirty.  dst and src may be the
\* same storage.
TransformBounds ==
    [][\A hd \in Handles, hs \in Handles, m \in BoundsMatrices \ {"identity"} :
         IF \/ handle[hd] = NULL \/ handle[hs] = NULL \/ handle'[hd] = NULL
            \/ editor' # editor
            \/ ~PointsMapped(refs'[handle'[hd]], refs[handle[hs]], m)
         THEN TRUE
         ELSE LET src == refs[handle[hs]]
                  dst == refs'[handle'[hd]]
                  fast == ~src.fBoundsIsDirty /\ KeepsRects(m) /\ src.fPointCnt > 1
                  mapped == MapRect(m, src.fBounds)
              IN \/ /\ dst.fBoundsIsDirty <=> ~fast
                    /\ fast =>
                         IF src.fIsFinite /\ RectIsFinite(mapped)
                         THEN dst.fBounds = mapped /\ dst.fIsFinite
                         ELSE dst.fBounds = EmptyRect /\ ~dst.fIsFinite
                 \/ ~CreateTransformedCopy(hd, hs, m)]_vars

\* src with known finite bounds and two points, and another storage that is
\* its image under flip, bounds included.
TransformBoundsWitness ==
    \E s \in Live, d \in Live :
        /\ s # d
        /\ ~refs[s].fBoundsIsDirty /\ refs[s].fIsFinite
        /\ refs[s].fPointCnt = 2
        /\ refs[s].points = <<<<0, 0>>, <<1, 1>>>>
        /\ refs[s].fBounds = Rect(0, 0, 1, 1)
        /\ ~refs[d].fBoundsIsDirty /\ refs[d].fIsFinite
        /\ refs[d].points = MapPoints("flip", refs[s].points)
        /\ refs[d].fBounds = MapRect("flip", refs[s].fBounds)

\* rc is the tight bounding rectangle of the points ps: it holds every point
\* and each of its edges goes through one.
IsTightBounds(rc, ps) ==
    /\ \A i \in 1..Len(ps) : RectContains(rc, ps[i])
    /\ \E i \in 1..Len(ps) : ps[i][1] = rc.fLeft
    /\ \E i \in 1..Len(ps) : ps[i][2] = rc.fTop
    /\ \E i \in 1..Len(ps) : ps[i][1] = rc.fRight
    /\ \E i \in 1..Len(ps) : ps[i][2] = rc.fBottom

EveryCoordFinite(ps) ==
    \A i \in 1..Len(ps) : ScalarIsFinite(ps[i][1]) /\ ScalarIsFinite(ps[i][2])

\* getBounds() and isFinite() change nothing but the bounds cache.
OnlyCacheChanged(r, post) ==
    post = [r EXCEPT !.fBounds = post.fBounds, !.fIsFinite = post.fIsFinite,
                     !.fBoundsIsDirty = post.fBoundsIsDirty]

\* What the claim says of zero points or one.
FewPointsBounds(r, post) ==
    /\ post.fBounds = EmptyRect
    /\ post.fIsFinite <=> (r.fPointCnt = 0 \/ EveryCoordFinite(r.points))

IsEmptyContent(r) == r.fPointCnt = 0 /\ r.fVerbCnt = 0

\* C21. genID() on a storage with fGenerationID 0 gives kEmptyGenID if the
\* storage has no points and no verbs, and otherwise ends with a value that is
\* neither 0 nor kEmptyGenID, whatever the counter holds, a counter about to
\* wrap included; on a storage with an ID it gives that ID and leaves the
\* counter alone; it changes nothing of the storage but the ID; and two
\* different storages with content that each draw an ID, the second at any
\* later value of the counter and neither draw wrapping it, get different IDs.
GenIDAssigns ==
    \A s \in Live, ctr \in Counters :
        \A g \in genIDOutcomes(refs[s], ctr) :
            LET r == refs[s]
                id == g.ref.fGenerationID
            IN /\ g.ref = [r EXCEPT !.fGenerationID = id]
               /\ IF r.fGenerationID # 0 THEN id = r.fGenerationID /\ g.ctr = ctr
                  ELSE IF IsEmptyContent(r) THEN id = kEmptyGenID /\ g.ctr = ctr
                  ELSE /\ id # 0 /\ id # kEmptyGenID
                       /\ id \in Counters
                       /\ g.ctr = id
                       /\ \A t \in Live \ {s}, later \in Counters :
                              ( /\ refs[t].fGenerationID = 0 /\ ~IsEmptyContent(refs[t])
                                /\ ctr # MaxInt /\ later # MaxInt
                                /\ later >= g.ctr )
                              => \A g2 \in genIDOutcomes(refs[t], later) :
                                     g2.ref.fGenerationID # id

\* Two storages with content have drawn the first two IDs, the counter holding
\* the second.
GenIDAssignsWitness ==
    \E s \in Live, t \in Live :
        /\ ~IsEmptyContent(refs[s]) /\ ~IsEmptyContent(refs[t])
        /\ refs[s].fGenerationID = kEmptyGenID + 1
        /\ refs[t].fGenerationID = kEmptyGenID + 2
        /\ gPathRefGenerationID = kEmptyGenID + 2

\* C22. With no Editor at work, the genID() calls that threads make
\* concurrently on a storage with content and no ID all return the same
\* value, and once they have all returned the storage's fGenerationID is that
\* value, for as long as the content is unchanged.
GenIDCallsAgree ==
    \A h1 \in Handles, h2 \in Handles :
        ( /\ handle[h1] # NULL
          /\ handle[h1] = handle[h2]
          /\ ~IsEmptyContent(refs[handle[h1]])
          /\ \A h \in Handles : handle[h] = handle[h1] => call[h].pc = "idle"
          /\ call[h1].id # 0
          /\ call[h2].id # 0 )
        => /\ call[h1].id = call[h2].id
           /\ refs[handle[h1]].fGenerationID = call[h1].id

==========================================================================
